---------------------------- MODULE Spec2Model ----------------------------
(***************************************************************************)
(* Model of src/binary.py: class `test` and its single method `fit`.       *)
(*                                                                         *)
(* A probability is an integer p in 0..PMax standing for p/PMax.  The      *)
(* quantile cut points of pd.qcut are linear interpolations between two    *)
(* neighbouring order statistics; for q requested bins every cut point is  *)
(* a multiple of 1/q of a grid step, so cut points are kept multiplied by  *)
(* Scale(q) and compared with Scale(q) * p.  Arithmetic is exact: the      *)
(* rounding of binary floating point is not modelled.  A quotient of two   *)
(* counts is a value of the small algebra NaN / +Inf / -Inf / n over d     *)
(* that numpy's float division produces.                                   *)
(***************************************************************************)
EXTENDS Integers, Sequences, FiniteSets

\* ------------------------------------------------------------- bounds
MaxN == 3
PMax == 2
MaxBins == 3

\* The two classes.
Labels == {0, 1}

Invs == {1, 2}
Objs == {1, 2}

(***************************************************************************)
(* The pandas build the program runs on.  Two library behaviours that the  *)
(* code relies on differ between releases:                                 *)
(*  - labels: what pd.qcut does when dropping duplicate cut points leaves  *)
(*    a single edge: older releases raise IndexError while formatting the  *)
(*    interval labels, newer ones return all-missing codes over zero       *)
(*    categories;                                                          *)
(*  - observed: the default of DataFrame.groupby(observed=...) for a       *)
(*    categorical key (False before pandas 3, True from pandas 3 on).      *)
(***************************************************************************)
Builds ==
  { [labels |-> "IndexError", observed |-> FALSE],
    [labels |-> "empty", observed |-> FALSE],
    [labels |-> "empty", observed |-> TRUE] }

\* build: the pandas build, fixed for a run.  Per invocation of fit: pc, its
\* position; self, the object it is called on; args, its arguments; local,
\* its locals n0, n1, t after line 91; raised, the exception that ended it.
\* obj: the attributes of every object of class test.
VARIABLES build, pc, self, args, local, raised, obj

vars == <<build, pc, self, args, local, raised, obj>>

\* ------------------------------------------------------------ numbers
Abs(a) == IF a < 0 THEN -a ELSE a

RECURSIVE GCD(_, _)
GCD(a, b) == IF b = 0 THEN a ELSE GCD(b, a % b)

NaN == [k |-> "nan", n |-> 0, d |-> 0]
PosInf == [k |-> "inf", n |-> 1, d |-> 0]
NegInf == [k |-> "inf", n |-> -1, d |-> 0]

\* n/d with d > 0, in lowest terms.
Fin(n, d) ==
  LET g == GCD(Abs(n), d) IN [k |-> "fin", n |-> n \div g, d |-> d \div g]

\* Series.div: float division, where x/0 is NaN for x = 0 and +-Inf otherwise.
Div(a, b) ==
  IF b = 0 THEN (IF a = 0 THEN NaN ELSE IF a > 0 THEN PosInf ELSE NegInf)
  ELSE IF b > 0 THEN Fin(a, b) ELSE Fin(-a, -b)

\* Series.__sub__ on floats.
SubF(f, g) ==
  IF f.k = "nan" \/ g.k = "nan" THEN NaN
  ELSE IF f.k = "inf" /\ g.k = "inf" THEN (IF f.n = g.n THEN NaN ELSE f)
  ELSE IF f.k = "inf" THEN f
  ELSE IF g.k = "inf" THEN (IF g.n > 0 THEN NegInf ELSE PosInf)
  ELSE Fin(f.n * g.d - g.n * f.d, f.d * g.d)

\* Series.abs.
AbsF(f) ==
  IF f.k = "nan" THEN NaN
  ELSE IF f.k = "inf" THEN PosInf
  ELSE Fin(Abs(f.n), f.d)

\* f <= g for values that are not NaN.
LeqF(f, g) ==
  IF f.k = "inf" THEN (f.n < 0 \/ (g.k = "inf" /\ g.n > 0))
  ELSE IF g.k = "inf" THEN g.n > 0
  ELSE f.n * g.d <= g.n * f.d

\* Series.max: the largest value that is not NaN; NaN when there is none.
MaxSkipNa(s) ==
  LET vals == {s[i] : i \in {j \in DOMAIN s : s[j].k # "nan"}}
  IN IF vals = {} THEN NaN
     ELSE CHOOSE m \in vals : \A v \in vals : LeqF(v, m)

RECURSIVE SumTo(_, _)
\* s[1] + ... + s[k]  (Series.cumsum read at position k; Series.sum at Len(s)).
SumTo(s, k) == IF k = 0 THEN 0 ELSE SumTo(s, k - 1) + s[k]

Sum(s) == SumTo(s, Len(s))

\* ------------------------------------------------------------ pd.qcut
\* Number of positions of s holding a value v with v < c (resp. v <= c).
CountLess(s, c) == Cardinality({i \in DOMAIN s : s[i] < c})
CountLeq(s, c) == Cardinality({i \in DOMAIN s : s[i] <= c})

\* The order statistics of x (the sort inside Series.quantile).
SortSeq(x) ==
  [k \in 1..Len(x) |->
     CHOOSE v \in {x[i] : i \in DOMAIN x} :
       CountLess(x, v) < k /\ k <= CountLeq(x, v)]

\* Cut points for q bins are kept multiplied by Scale(q).
Scale(q) == IF q = 0 THEN 1 ELSE q

(***************************************************************************)
(* x.quantile(np.linspace(0, 1, q + 1)) with linear interpolation: the     *)
(* i-th cut point sits at position h/q = (i-1)*(N-1)/q of the sorted       *)
(* values, between the order statistics floor(h/q) and floor(h/q)+1.       *)
(* For q = 0 linspace(0, 1, 1) is the single quantile 0, the minimum.      *)
(***************************************************************************)
Quantiles(x, q) ==
  LET s == SortSeq(x)
      N == Len(x)
  IN IF q = 0 THEN <<s[1]>>
     ELSE [i \in 1..(q + 1) |->
             LET h == (i - 1) * (N - 1)
                 j == h \div q
                 r == h % q
             IN IF r = 0 THEN q * s[j + 1]
                ELSE q * s[j + 1] + r * (s[j + 2] - s[j + 1])]

RECURSIVE Unique(_)
\* algos.unique: the distinct values in order of first appearance.
Unique(e) ==
  IF e = <<>> THEN <<>>
  ELSE LET u == Unique(SubSeq(e, 1, Len(e) - 1))
           last == e[Len(e)]
       IN IF \E i \in DOMAIN u : u[i] = last THEN u ELSE Append(u, last)

\* duplicates='drop': repeated edges are dropped, except when there are
\* exactly two edges (a single bin whose ends coincide is kept).
DropDuplicates(e) ==
  LET u == Unique(e)
  IN IF Len(u) < Len(e) /\ Len(e) # 2 THEN u ELSE e

QcutEdges(x, q) == DropDuplicates(Quantiles(x, q))

(***************************************************************************)
(* The bin code of the value p: searchsorted(edges, p, side='left') is the *)
(* number of edges strictly below p; include_lowest sends the values equal *)
(* to the first edge to bin 1; a code of 0 or of Len(edges) is missing     *)
(* (written 0 here).  Code k stands for the interval (edges[k], edges[k+1]]*)
(***************************************************************************)
BinCode(p, edges, q) ==
  LET v == Scale(q) * p
      id == IF v = edges[1] THEN 1 ELSE CountLess(edges, v)
  IN IF id = 0 \/ id = Len(edges) THEN 0 ELSE id

\* ---------------------------------------------------- lines 74 to 91
\* The code of every observation (the categorical column t['range']).
Codes(y_proba, edges, q) ==
  [i \in DOMAIN y_proba |-> BinCode(y_proba[i], edges, q)]

\* The members of bin k: the observations whose code is k.
Members(codes, k) == {i \in DOMAIN codes : codes[i] = k}

RECURSIVE SumOver(_, _)
\* Sum of y[i] over the positions i in S ('sum' of the groupby aggregate).
SumOver(y, S) ==
  IF S = {} THEN 0
  ELSE LET i == CHOOSE j \in S : TRUE IN y[i] + SumOver(y, S \ {i})

\* groupby('range'): one group per interval category in ascending order;
\* with observed=True only the categories that hold an observation.
Groups(bld, codes, K) ==
  LET Kept(k) == ~bld.observed \/ Members(codes, k) # {}
  IN SelectSeq([k \in 1..K |-> k], Kept)

\* The interval label of category k.  The left end of the first interval
\* is lowered by pandas so that it holds the minimum: `lowest`.
Interval(edges, q, k) ==
  [left |-> edges[k], right |-> edges[k + 1], scale |-> Scale(q),
   lowest |-> (k = 1)]

\* Mutant of Remainder: the cumulative sum taken without the shift.
RemainderNoShift(col, r) == Sum(col) - SumTo(col, r)

\* t['size'].sum() - t['size'].shift(fill_value=0).cumsum(), at row r.
Remainder(col, r) == Sum(col) - SumTo(col, r - 1)

\* Mutant of AbsDifference: both cumulative counts divided by n0.
AbsDifferenceOneDenominator(c0, c1, n0, n1) ==
  AbsF(SubF(Div(c0, n0), Div(c1, n0)))

\* (cumulative_class0 / n0 - cumulative_class1 / n1).abs()
AbsDifference(c0, c1, n0, n1) == AbsF(SubF(Div(c0, n0), Div(c1, n1)))

\* The table of lines 74 to 91, for the groups g of the frame.
Table(codes, y_true, edges, q, g, n0, n1) ==
  LET size == [r \in DOMAIN g |-> Cardinality(Members(codes, g[r]))]
      class1 == [r \in DOMAIN g |-> SumOver(y_true, Members(codes, g[r]))]
      class0 == [r \in DOMAIN g |-> size[r] - class1[r]]
  IN [r \in DOMAIN g |->
        [bin |-> r,
         range |-> Interval(edges, q, g[r]),
         size |-> size[r],
         class0 |-> class0[r],
         class1 |-> class1[r],
         odds |-> Div(class0[r], class1[r]),
         class0_rate |-> Div(class0[r], size[r]),
         class1_rate |-> Div(class1[r], size[r]),
         remainder_total |-> Remainder(size, r),
         remainder_class0 |-> Remainder(class0, r),
         remainder_class1 |-> Remainder(class1, r),
         cumulative_class0 |-> SumTo(class0, r),
         cumulative_class1 |-> SumTo(class1, r),
         abs_difference |->
           AbsDifference(SumTo(class0, r), SumTo(class1, r), n0, n1)]]

\* t['abs_difference'].max()
Ks(t) == MaxSkipNa([r \in DOMAIN t |-> t[r].abs_difference])

\* Whether line 88 raises: Series.apply hands axis=1 on to the lambda, which
\* takes no such argument; apply calls it unless the column is empty.
RoundRangeRaises(round_range, t) == round_range /\ Len(t) > 0

(***************************************************************************)
(* Lines 71 to 91 of fit: the locals n0, n1 and t, or the exception that   *)
(* ends the call before any attribute is stored.                           *)
(***************************************************************************)
Compute(bld, a) ==
  LET n1 == Sum(a.y_true)
      n0 == Len(a.y_proba) - n1
      none == [exc |-> "none", n0 |-> n0, n1 |-> n1, t |-> <<>>]
  IN IF Len(a.y_proba) # Len(a.y_true)
       THEN [none EXCEPT !.exc = "ValueError"]
     ELSE LET edges == QcutEdges(a.y_proba, a.bins)
          IN IF Len(edges) = 1 /\ bld.labels = "IndexError"
               THEN [none EXCEPT !.exc = "IndexError"]
             ELSE LET codes == Codes(a.y_proba, edges, a.bins)
                      g == Groups(bld, codes, Len(edges) - 1)
                      t == Table(codes, a.y_true, edges, a.bins, g, n0, n1)
                  IN IF RoundRangeRaises(a.round_range, t)
                       THEN [none EXCEPT !.exc = "TypeError"]
                     ELSE [none EXCEPT !.t = t]

\* ------------------------------------------------------ lines 92 to 96
\* An object of class test: `has` is the set of attributes assigned so far.
Fresh ==
  [has |-> {}, obs |-> 0, class0 |-> 0, class1 |-> 0, ks |-> NaN,
   table |-> <<>>]

Attrs == <<"obs", "class0", "class1", "ks", "table">>

\* The value the assignment of the attribute named at gives it, from the
\* locals l.
AttrValue(at, l) ==
  CASE at = "obs" -> l.n0 + l.n1
    [] at = "class0" -> l.n0
    [] at = "class1" -> l.n1
    [] at = "ks" -> Ks(l.t)
    [] at = "table" -> l.t

\* The object o after the assignment of the attribute named at.
StoreAttr(o, at, l) ==
  [o EXCEPT ![at] = AttrValue(at, l), !.has = @ \cup {at}]

\* The object o after all of lines 92 to 96.
StoreAll(o, l) ==
  [has |-> o.has \cup {Attrs[k] : k \in DOMAIN Attrs},
   obs |-> AttrValue("obs", l),
   class0 |-> AttrValue("class0", l),
   class1 |-> AttrValue("class1", l),
   ks |-> AttrValue("ks", l),
   table |-> AttrValue("table", l)]

\* ------------------------------------------------------------- inputs
ProbSeqs == UNION {[1..n -> 0..PMax] : n \in 1..MaxN}

\* A label vector of length n holding a value that is no class (2).
NonBinary(n) == [i \in 1..n |-> IF i = 1 THEN 2 ELSE 1]

\* A label vector of another length than the n probabilities.
WrongLength(n) == [i \in 1..(n + 1) |-> 0]

\* Label vectors offered with a probability vector of length n: every vector
\* of classes of that length, and one of each malformed kind (line 72 rejects
\* a vector of another length by its length alone).
LabelSeqs(n) == [1..n -> Labels] \cup {NonBinary(n), WrongLength(n)}

MakeArgs(p, y, b, rr) ==
  [y_proba |-> p, y_true |-> y, bins |-> b, round_range |-> rr]

NoArgs == [y_proba |-> <<>>, y_true |-> <<>>, bins |-> 0, round_range |-> FALSE]
NoLocal == [exc |-> "none", n0 |-> 0, n1 |-> 0, t |-> <<>>]

\* ------------------------------------------------------------ actions
Init ==
  /\ build \in Builds
  /\ pc = [i \in Invs |-> "idle"]
  /\ self = [i \in Invs |-> 1]
  /\ args = [i \in Invs |-> NoArgs]
  /\ local = [i \in Invs |-> NoLocal]
  /\ raised = [i \in Invs |-> "none"]
  /\ obj = [o \in Objs |-> Fresh]

\* One whole call x.fit(...) of lines 71 to 96, run alone, with arguments a.
FitCall(i, o, a) ==
  \E l \in {Compute(build, a)} :
     /\ args' = [args EXCEPT ![i] = a]
     /\ self' = [self EXCEPT ![i] = o]
     /\ local' = [local EXCEPT ![i] = l]
     /\ raised' = [raised EXCEPT ![i] = l.exc]
     /\ IF l.exc = "none"
          THEN /\ obj' = [obj EXCEPT ![o] = StoreAll(obj[o], l)]
               /\ pc' = [pc EXCEPT ![i] = "returned"]
          ELSE /\ obj' = obj
               /\ pc' = [pc EXCEPT ![i] = "raised"]
     /\ UNCHANGED build

\* fit called on a newly constructed object, with any arguments.  (Calls on
\* an object that already holds a result are followed line by line in
\* SpecShared.)
Fit(i, o) ==
  /\ pc[i] = "idle"
  /\ obj[o] = Fresh
  /\ \E p \in ProbSeqs, b \in 0..MaxBins, rr \in BOOLEAN :
       \E y \in LabelSeqs(Len(p)) : FitCall(i, o, MakeArgs(p, y, b, rr))

\* x = test(): the caller drops the object and constructs a new one.
Construct(i, o) ==
  /\ pc[i] \in {"returned", "raised"}
  /\ self[i] = o
  /\ pc' = [pc EXCEPT ![i] = "idle"]
  /\ args' = [args EXCEPT ![i] = NoArgs]
  /\ local' = [local EXCEPT ![i] = NoLocal]
  /\ raised' = [raised EXCEPT ![i] = "none"]
  /\ obj' = [obj EXCEPT ![o] = Fresh]
  /\ UNCHANGED <<build, self>>

Next ==
  \/ Fit(1, 1)
  \/ Construct(1, 1)

Spec == Init /\ [][Next]_vars

\* ------------------------------------- concurrent calls, line by line
\* Mutant of Target: the attributes kept in one place shared by all objects.
TargetShared(i) == 1

\* The object whose attributes the assignments of lines 92 to 96 of
\* invocation i set: its own self.
Target(i) == self[i]

\* The arguments of invocation i in the concurrent runs: the invocations are
\* given different data (i + 1 observations for invocation i).
SharedArgs(i) ==
  {MakeArgs([k \in 1..(i + 1) |-> IF k = 1 THEN 0 ELSE PMax], y, b, rr) :
     y \in {[k \in 1..(i + 1) |-> IF k = 1 THEN 0 ELSE 1],
            [k \in 1..(i + 1) |-> IF k = 1 THEN 1 ELSE 0]},
     b \in 1..2, rr \in BOOLEAN}

\* Invocation i enters fit on object o and runs lines 71 to 91, which touch
\* only its arguments and locals.
Begin(i, o) ==
  /\ pc[i] = "idle"
  /\ \E a \in SharedArgs(i) : \E l \in {Compute(build, a)} :
       /\ args' = [args EXCEPT ![i] = a]
       /\ self' = [self EXCEPT ![i] = o]
       /\ local' = [local EXCEPT ![i] = l]
       /\ raised' = [raised EXCEPT ![i] = l.exc]
       /\ pc' = [pc EXCEPT ![i] = IF l.exc = "none" THEN "l92" ELSE "raised"]
  /\ UNCHANGED <<build, obj>>

\* One assignment self.<at> = ... of invocation i, at line `from`.
Assign(i, from, at, to) ==
  /\ pc[i] = from
  /\ obj' = [obj EXCEPT ![Target(i)] = StoreAttr(@, at, local[i])]
  /\ pc' = [pc EXCEPT ![i] = to]
  /\ UNCHANGED <<build, self, args, local, raised>>

Line92(i) == Assign(i, "l92", "obs", "l93")
Line93(i) == Assign(i, "l93", "class0", "l94")
Line94(i) == Assign(i, "l94", "class1", "l95")
Line95(i) == Assign(i, "l95", "ks", "l96")
Line96(i) == Assign(i, "l96", "table", "returned")

NextShared ==
  \E i \in Invs :
    \/ \E o \in Objs : Begin(i, o)
    \/ Line92(i)
    \/ Line93(i)
    \/ Line94(i)
    \/ Line95(i)
    \/ Line96(i)

SpecShared == Init /\ [][NextShared]_vars

\* ------------------------------------------------- reading a result
\* A valid input of fit: equal non-zero lengths, labels 0/1, bins >= 1.
ValidInput(a) ==
  /\ Len(a.y_proba) >= 1
  /\ Len(a.y_proba) = Len(a.y_true)
  /\ \A k \in DOMAIN a.y_true : a.y_true[k] \in Labels
  /\ a.bins >= 1

\* Both classes occur among the labels.
BothClasses(a) ==
  /\ \E k \in DOMAIN a.y_true : a.y_true[k] = 0
  /\ \E k \in DOMAIN a.y_true : a.y_true[k] = 1

\* Invocation i has been called (and has returned or raised).
Called(i) == pc[i] # "idle"
Returned(i) == pc[i] = "returned"

\* Column c of table t, as a sequence.
Column(t, c) == [r \in DOMAIN t |-> t[r][c]]

\* s[r] + ... + s[Len(s)]
SumFrom(s, r) == Sum(s) - SumTo(s, r - 1)

NonDecreasing(s) == \A r \in DOMAIN s : r > 1 => s[r - 1] <= s[r]
NonIncreasing(s) == \A r \in DOMAIN s : r > 1 => s[r - 1] >= s[r]

\* The Result of invocation i run alone on a new object.
Alone(i) == StoreAll(Fresh, Compute(build, args[i]))

\* int(round(v)) for the probability v = e / (scale * PMax) in [0, 1]:
\* Python rounds a half to the even integer, so 1/2 goes to 0.
RoundBound(e, scale) == IF 2 * e > scale * PMax THEN 1 ELSE 0

\* pd.Interval(int(round(x.left)), int(round(x.right))) of line 88.
RoundInterval(x) ==
  [left |-> RoundBound(x.left, x.scale), right |-> RoundBound(x.right, x.scale),
   scale |-> 1, lowest |-> FALSE]

\* The table t with every reported interval rounded.
RoundRange(t) == [r \in DOMAIN t |-> [t[r] EXCEPT !.range = RoundInterval(@)]]

\* ------------------------------------------------------------- claims
\* C1: for every valid input the bins of the resulting table hold every
\* observation exactly once: sum(size) = obs, sum(class0) = class0 and
\* sum(class1) = class1.
C1_SumsMatchTotals ==
  (Returned(1) /\ ValidInput(args[1])) =>
     /\ Sum(Column(obj[1].table, "size")) = obj[1].obs
     /\ Sum(Column(obj[1].table, "class0")) = obj[1].class0
     /\ Sum(Column(obj[1].table, "class1")) = obj[1].class1

\* C2: for every valid input the cumulative_class0 and cumulative_class1
\* columns are non-decreasing and their values at the last bin are class0
\* and class1.
C2_CumulativeReachTotals ==
  (Returned(1) /\ ValidInput(args[1])) =>
     LET t == obj[1].table
     IN /\ NonDecreasing(Column(t, "cumulative_class0"))
        /\ NonDecreasing(Column(t, "cumulative_class1"))
        /\ Len(t) >= 1
        /\ t[Len(t)].cumulative_class0 = obj[1].class0
        /\ t[Len(t)].cumulative_class1 = obj[1].class1

\* C3: for every valid input with both classes present, ks is the largest
\* abs_difference of the table and lies in [0, 1].
C3_KsIsMaxInUnitInterval ==
  (Returned(1) /\ ValidInput(args[1]) /\ BothClasses(args[1])) =>
     LET t == obj[1].table
         ks == obj[1].ks
     IN /\ \E r \in DOMAIN t : t[r].abs_difference = ks
        /\ \A r \in DOMAIN t : LeqF(t[r].abs_difference, ks)
        /\ ks.k = "fin"
        /\ LeqF(Fin(0, 1), ks) /\ LeqF(ks, Fin(1, 1))

\* C4: when the (otherwise valid) labels are all of one class, fit fails
\* with an error instead of returning.
C4_SingleClassRaises ==
  (Called(1) /\ ValidInput(args[1]) /\ ~BothClasses(args[1])) =>
     pc[1] = "raised"

\* C5: when the lengths differ, a label is not 0 or 1, or bins < 1, fit
\* fails with an error and no result attribute is set.
C5_InvalidInputRaises ==
  (Called(1) /\ ~ValidInput(args[1])) =>
     (pc[1] = "raised" /\ obj[1] = Fresh)

\* C6: for every valid input fit with round_range=True returns, and its
\* Result is the round_range=False Result with every interval boundary
\* rounded to the nearest integer and nothing else changed.
C6_RoundRangeOnlyRoundsBounds ==
  (Called(1) /\ ValidInput(args[1]) /\ args[1].round_range) =>
     LET plain == StoreAll(Fresh,
                    Compute(build, [args[1] EXCEPT !.round_range = FALSE]))
     IN /\ Returned(1)
        /\ obj[1] = [plain EXCEPT !.table = RoundRange(@)]

\* C7: for every valid input, ties included, binning reports no error, the
\* table has between 1 and `bins` bins numbered 1..K in ascending order,
\* adjacent bins are contiguous and every bin's bounds are strictly
\* increasing (the first bin's left end is lowered to take in the minimum).
C7_BinsPartitionTheRange ==
  (Called(1) /\ ValidInput(args[1])) =>
     /\ raised[1] # "IndexError"
     /\ Returned(1) =>
          LET t == obj[1].table
          IN /\ 1 <= Len(t) /\ Len(t) <= args[1].bins
             /\ \A r \in DOMAIN t : t[r].bin = r
             /\ \A r \in DOMAIN t :
                  \/ t[r].range.left < t[r].range.right
                  \/ (t[r].range.lowest /\ t[r].range.left = t[r].range.right)
             /\ \A r \in DOMAIN t :
                  r > 1 => t[r - 1].range.right = t[r].range.left

\* The case of C8: a valid input with both classes, bins = 1.
C8Case(a) == ValidInput(a) /\ BothClasses(a) /\ a.bins = 1

\* C8: for every valid input with both classes present, fit with bins=1
\* (and the default round_range) returns a table of exactly one bin, of
\* size obs, whose abs_difference is 0, and ks = 0.
C8_OneBinHasZeroKs ==
  (Called(1) /\ C8Case(args[1])) =>
     /\ ~args[1].round_range => Returned(1)
     /\ Returned(1) =>
          LET t == obj[1].table
          IN /\ Len(t) = 1
             /\ t[1].size = obj[1].obs
             /\ obj[1].obs = Len(args[1].y_proba)
             /\ t[1].abs_difference = Fin(0, 1)
             /\ obj[1].ks = Fin(0, 1)

\* Reached: a one-bin fit of three observations of both classes has
\* returned, with unequal class counts.
C8_Witness ==
  /\ Returned(1) /\ C8Case(args[1])
  /\ Len(args[1].y_proba) = 3
  /\ obj[1].class1 = 2
  /\ Len(obj[1].table) = 1

\* No invocation is between lines 92 and 96 on object o.
Quiet(o) ==
  \A i \in Invs : pc[i] \in {"l92", "l93", "l94", "l95", "l96"} => self[i] # o

OwnObject(i) ==
  \A j \in Invs \ {i} : pc[j] \in {"idle", "raised"} \/ self[j] # self[i]

C10_RemaindersCountFromBin ==
  (Returned(1) /\ ValidInput(args[1])) =>
     LET t == obj[1].table
         size == Column(t, "size")
         class0 == Column(t, "class0")
         class1 == Column(t, "class1")
     IN /\ \A r \in DOMAIN t :
             /\ t[r].remainder_total = obj[1].obs - SumTo(size, r - 1)
             /\ t[r].remainder_class0 = obj[1].class0 - SumTo(class0, r - 1)
             /\ t[r].remainder_class1 = obj[1].class1 - SumTo(class1, r - 1)
             /\ t[r].remainder_total = SumFrom(size, r)
             /\ t[r].remainder_class0 = SumFrom(class0, r)
             /\ t[r].remainder_class1 = SumFrom(class1, r)
             /\ t[r].remainder_class0 + t[r].cumulative_class0 - t[r].class0
                  = obj[1].class0
             /\ t[r].remainder_class1 + t[r].cumulative_class1 - t[r].class1
                  = obj[1].class1
             /\ r = 1 => /\ t[r].remainder_total = obj[1].obs
                         /\ t[r].remainder_class0 = obj[1].class0
                         /\ t[r].remainder_class1 = obj[1].class1
        /\ NonIncreasing(Column(t, "remainder_total"))
        /\ NonIncreasing(Column(t, "remainder_class0"))
        /\ NonIncreasing(Column(t, "remainder_class1"))

\* Reached: a valid fit has returned three bins, each holding an
\* observation, with both classes present.
C10_Witness ==
  /\ Returned(1) /\ ValidInput(args[1]) /\ BothClasses(args[1])
  /\ Len(obj[1].table) = 3
  /\ \A r \in DOMAIN obj[1].table : obj[1].table[r].size = 1
  /\ obj[1].table[2].remainder_total = 2

=============================================================================
